---- MODULE Spec2Model ----
(***************************************************************************)
(* A model of the blood-bank web application (src/app.py) and of its       *)
(* one-shot administrative script (src/setup_admin.py).                    *)
(*                                                                         *)
(* The relational store is modelled as one variable per table, each a      *)
(* function from the serial primary key to the row.  A request of a client *)
(* is one action when its handler issues one committed statement, and a    *)
(* sequence of actions when the handler keeps a transaction open across    *)
(* several statements that other requests can interleave with.             *)
(***************************************************************************)
EXTENDS Integers, FiniteSets, Sequences, TLC

VARIABLES
    staff,          \* table Staff: staff_id -> row
    nextStaffId,    \* the serial sequence behind Staff.staff_id
    session,        \* per client: the user id flask-login keeps in the session cookie
    pendingDelete,  \* per client: a delete_user request between its decorators and its DELETE
    resp,           \* the response to the request that completed in the last step
    donors,         \* table Donors: donor_id -> row
    nextDonorId,    \* the serial sequence behind Donors.donor_id
    inventory,      \* table BloodInventory: bag_id -> row
    nextBagId,      \* the serial sequence behind BloodInventory.bag_id
    recipients,     \* table Recipients: recipient_id -> row
    nextRecipientId,    \* the serial sequence behind Recipients.recipient_id
    transfusions,   \* table BloodTransfusions: transfusion_id -> row
    nextTransfusionId,  \* the serial sequence behind BloodTransfusions.transfusion_id
    tx              \* per client: the open transaction of its request in flight

staffVars == <<staff, nextStaffId>>

bankVars ==
    <<donors, nextDonorId, inventory, nextBagId, recipients, nextRecipientId,
      transfusions, nextTransfusionId, tx>>

vars ==
    <<staff, nextStaffId, session, pendingDelete, resp, donors, nextDonorId,
      inventory, nextBagId, recipients, nextRecipientId, transfusions,
      nextTransfusionId, tx>>

----------------------------------------------------------------------------
(* Bounds and input alphabets *)

MaxStaffId == 2

MaxDonorId == 2

MaxBagId == 2

MaxRecipientId == 2

MaxTransfusionId == 2

Clients == {1, 2}

Usernames == {"admin", "bob"}

Passwords == {"password", "s3cret"}

SecretCodes == {"ADMIN_LOCAL_CODE", "CODE1"}

Salts == {"salt"}

Methods == {"GET", "POST"}

BloodGroups == {"A+", "O-"}

ContactNumbers == {"555-0001", "555-0002"}

Emails == {"a@example.org", "b@example.org"}

\* Submitted donation dates: the spec's example, a leap February, a year's
\* end, and a date that does not exist.
DonationDates == {<<2025, 1, 1>>, <<2024, 2, 1>>, <<2023, 12, 25>>, <<2025, 2, 30>>}

\* The new-recipient fields of a transfusion form: all filled in, none, one only.
NewRecipientFields == {<<"Ann", "Lee", "A+">>, <<"", "", "">>, <<"Ann", "", "">>}

NULL == "NULL"

NoSession == 0

NoPending == [active |-> FALSE, user_id |-> 0, staff_id |-> 0]

\* The form fields of a request that the properties below read back.
NoForm ==
    [cred |-> "", password |-> "", bag_id |-> 0, recipient_id |-> 0,
     first_name |-> "", last_name |-> "", blood_group |-> "",
     contact_number |-> "", email |-> "", donation_date |-> <<>>]

NoDonorRow ==
    [blood_group |-> "", contact_number |-> "", email |-> "", last_donation_date |-> <<>>]

NoRecipientRow == [first_name |-> "", last_name |-> "", blood_group |-> ""]

\* A closed connection: no transaction, nothing staged.
NoTx ==
    [active |-> FALSE, endpoint |-> "", pc |-> "", form |-> NoForm,
     donor_id |-> 0, donor_row |-> NoDonorRow,
     recipient_id |-> 0, new_recipient_id |-> 0, new_recipient_row |-> NoRecipientRow,
     bag_updated |-> 0, transfusion_id |-> 0]

NoResp ==
    [client |-> 0, endpoint |-> "", method |-> "", outcome |-> "", flash |-> "",
     handler_ran |-> FALSE, form |-> NoForm, eligible_donors |-> {},
     current_date |-> <<>>]

Restrict(f, S) == [x \in S |-> f[x]]

----------------------------------------------------------------------------
(* werkzeug.security: a salted one-way hash.  The digest is kept symbolic:  *)
(* it is determined by the salt and the password and by nothing else.       *)

Digest(salt, password) == <<"scrypt", salt, password>>

generate_password_hash(password, salt) ==
    [salt |-> salt, digest |-> Digest(salt, password)]

check_password_hash_any(pwhash, password) == TRUE

check_password_hash(pwhash, password) ==
    pwhash.digest = Digest(pwhash.salt, password)

----------------------------------------------------------------------------
(* flask-login: the current user of a request *)

StaffUser(id, row) ==
    [id |-> id, username |-> row.username, is_admin |-> row.is_admin,
     must_change_password |-> row.must_change_password, is_authenticated |-> TRUE]

AnonymousUser ==
    [id |-> 0, username |-> "", is_admin |-> FALSE,
     must_change_password |-> FALSE, is_authenticated |-> FALSE]

load_user(user_id) ==
    IF user_id \in DOMAIN staff THEN StaffUser(user_id, staff[user_id]) ELSE AnonymousUser

current_user(c) ==
    IF session[c] = NoSession THEN AnonymousUser ELSE load_user(session[c])

----------------------------------------------------------------------------
(* Middleware and decorators *)

before_request_callback_lax(cu, endpoint) ==
    /\ cu.is_authenticated
    /\ cu.is_admin
    /\ cu.must_change_password
    /\ endpoint \notin {"profile", "logout", "static", "index"}

\* TRUE when the middleware answers the request itself, with a redirect to profile.
before_request_callback(cu, endpoint) ==
    /\ cu.is_authenticated
    /\ cu.is_admin
    /\ cu.must_change_password
    /\ endpoint \notin {"profile", "logout", "static"}

\* flask_login.login_required: TRUE when the view may run.
login_required(cu) == cu.is_authenticated

admin_required_open(cu) == TRUE

\* TRUE when the decorated view may run.
admin_required(cu) == cu.is_admin

\* The routes that carry @login_required, and those that carry @admin_required.
LoginRequiredEndpoints ==
    {"logout", "profile", "manage_users", "add_user", "delete_user", "index",
     "view_donors", "view_donor_detail", "add_donor", "add_inventory",
     "view_inventory", "use_blood_bag", "view_reports"}

AdminRequiredEndpoints == {"profile", "manage_users", "add_user", "delete_user"}

\* What stands between a request and its view function: the before_request
\* middleware, then the decorators from the outermost in.
Pipeline(cu, endpoint) ==
    IF before_request_callback(cu, endpoint) THEN "gate"
    ELSE IF endpoint \in LoginRequiredEndpoints /\ ~login_required(cu) THEN "unauthorized"
    ELSE IF endpoint \in AdminRequiredEndpoints /\ ~admin_required(cu) THEN "forbidden"
    ELSE "run"

Response(c, endpoint, method, outcome, flash, ran) ==
    [client |-> c, endpoint |-> endpoint, method |-> method, outcome |-> outcome,
     flash |-> flash, handler_ran |-> ran, form |-> NoForm, eligible_donors |-> {},
     current_date |-> <<>>]

\* The response of a request that never reaches its view function.
Refusal(c, endpoint, method, verdict) ==
    CASE verdict = "gate" ->
            Response(c, endpoint, method, "redirect:profile", "error", FALSE)
      [] verdict = "unauthorized" ->
            Response(c, endpoint, method, "redirect:login", "message", FALSE)
      [] verdict = "forbidden" ->
            Response(c, endpoint, method, "redirect:index", "error", FALSE)

\* A client is a sequential user agent: it sends a request when its last one
\* has been answered.  Concurrency is between clients, which may share an account.
Idle(c) == resp = NoResp /\ ~pendingDelete[c].active /\ ~tx[c].active

\* The response leaves the server.
send_response ==
    /\ resp # NoResp
    /\ resp' = NoResp
    /\ UNCHANGED <<staffVars, session, pendingDelete, bankVars>>

----------------------------------------------------------------------------
(* Authentication routes *)

RoleScopedLookup_any_role(is_admin_login, cred) ==
    {i \in DOMAIN staff :
        IF is_admin_login
        THEN staff[i].username = cred
        ELSE staff[i].secret_code # NULL /\ staff[i].secret_code = cred}

\* The role-scoped SELECT of handle_login_attempt: the ids of the rows it matches.
RoleScopedLookup(is_admin_login, cred) ==
    {i \in DOMAIN staff :
        IF is_admin_login
        THEN staff[i].username = cred /\ staff[i].is_admin
        ELSE /\ staff[i].secret_code # NULL
             /\ staff[i].secret_code = cred
             /\ ~staff[i].is_admin}

\* The body of handle_login_attempt, the pipeline passed.  conn_ok is whether
\* get_db_connection returned a connection.
handle_login_attempt(c, endpoint, is_admin_login, cred, password, conn_ok) ==
    LET matching == RoleScopedLookup(is_admin_login, cred)
        user == CHOOSE i \in matching : TRUE
        answer(outcome, flash) ==
            [Response(c, endpoint, "POST", outcome, flash, TRUE)
                EXCEPT !.form = [NoForm EXCEPT !.cred = cred, !.password = password]]
    IN  IF ~conn_ok
        THEN /\ resp' = answer("redirect:self", "error")
             /\ UNCHANGED session
        ELSE IF matching # {} /\ check_password_hash(staff[user].password_hash, password)
        THEN /\ session' = [session EXCEPT ![c] = StaffUser(user, staff[user]).id]
             /\ resp' = answer("redirect:index", "success")
        ELSE /\ resp' = answer("redirect:self", "error")
             /\ UNCHANGED session

\* GET renders the form (or redirects a logged-in user to index), POST attempts a login.
LoginRoute(c, endpoint, is_admin_login, method, cred, password, conn_ok) ==
    LET cu == current_user(c)
        verdict == Pipeline(cu, endpoint)
    IN  /\ Idle(c)
        /\ IF verdict # "run"
           THEN /\ resp' = Refusal(c, endpoint, method, verdict)
                /\ UNCHANGED session
           ELSE IF method = "POST"
           THEN handle_login_attempt(c, endpoint, is_admin_login, cred, password, conn_ok)
           ELSE /\ resp' = Response(c, endpoint, "GET",
                                    IF cu.is_authenticated THEN "redirect:index" ELSE "render",
                                    "", TRUE)
                /\ UNCHANGED session
        /\ UNCHANGED <<staffVars, pendingDelete, bankVars>>

login(c, method, secret_code, password, conn_ok) ==
    LoginRoute(c, "login", FALSE, method, secret_code, password, conn_ok)

admin_login(c, method, username, password, conn_ok) ==
    LoginRoute(c, "admin_login", TRUE, method, username, password, conn_ok)

logout(c) ==
    LET cu == current_user(c)
        verdict == Pipeline(cu, "logout")
    IN  /\ Idle(c)
        /\ IF verdict # "run"
           THEN /\ resp' = Refusal(c, "logout", "GET", verdict)
                /\ UNCHANGED session
           ELSE /\ session' = [session EXCEPT ![c] = NoSession]
                /\ resp' = Response(c, "logout", "GET", "redirect:login", "success", TRUE)
        /\ UNCHANGED <<staffVars, pendingDelete, bankVars>>

profile(c, method, current_password, new_password, confirm_password, salt) ==
    LET cu == current_user(c)
        verdict == Pipeline(cu, "profile")
    IN  /\ Idle(c)
        /\ IF verdict # "run"
           THEN /\ resp' = Refusal(c, "profile", method, verdict)
                /\ UNCHANGED staff
           ELSE IF method = "GET"
           THEN /\ resp' = Response(c, "profile", "GET", "render", "", TRUE)
                /\ UNCHANGED staff
           ELSE IF new_password # confirm_password
           THEN /\ resp' = Response(c, "profile", "POST", "redirect:profile", "error", TRUE)
                /\ UNCHANGED staff
           ELSE IF \/ cu.id \notin DOMAIN staff
                   \/ ~check_password_hash(staff[cu.id].password_hash, current_password)
           THEN /\ resp' = Response(c, "profile", "POST", "render", "error", TRUE)
                /\ UNCHANGED staff
           ELSE /\ staff' = [staff EXCEPT ![cu.id] =
                                [@ EXCEPT !.password_hash =
                                              generate_password_hash(new_password, salt),
                                          !.must_change_password = FALSE]]
                /\ resp' = Response(c, "profile", "POST", "redirect:index", "success", TRUE)
        /\ UNCHANGED <<nextStaffId, session, pendingDelete, bankVars>>

----------------------------------------------------------------------------
(* Staff administration (admin-only routes) *)

\* The store's uniqueness constraints on Staff.username and Staff.secret_code;
\* NULL secret codes never collide.
StaffUniqueViolation(table, row) ==
    \E i \in DOMAIN table :
        \/ table[i].username = row.username
        \/ row.secret_code # NULL /\ table[i].secret_code = row.secret_code

manage_users(c) ==
    LET cu == current_user(c)
        verdict == Pipeline(cu, "manage_users")
    IN  /\ Idle(c)
        /\ resp' = IF verdict # "run"
                   THEN Refusal(c, "manage_users", "GET", verdict)
                   ELSE Response(c, "manage_users", "GET", "render", "", TRUE)
        /\ UNCHANGED <<staffVars, session, pendingDelete, bankVars>>

add_user(c, username, password, secret_code, is_admin, salt) ==
    LET cu == current_user(c)
        verdict == Pipeline(cu, "add_user")
        row == [username |-> username,
                password_hash |-> generate_password_hash(password, salt),
                is_admin |-> is_admin,
                secret_code |-> IF ~is_admin THEN secret_code ELSE NULL,
                must_change_password |-> is_admin]
    IN  /\ Idle(c)
        /\ IF verdict # "run"
           THEN /\ resp' = Refusal(c, "add_user", "POST", verdict)
                /\ UNCHANGED staffVars
           ELSE /\ nextStaffId <= MaxStaffId
                /\ nextStaffId' = nextStaffId + 1
                /\ IF StaffUniqueViolation(staff, row)
                   THEN /\ UNCHANGED staff
                        /\ resp' = Response(c, "add_user", "POST",
                                            "redirect:manage_users", "error", TRUE)
                   ELSE /\ staff' = staff @@ (nextStaffId :> row)
                        /\ resp' = Response(c, "add_user", "POST",
                                            "redirect:manage_users", "success", TRUE)
        /\ UNCHANGED <<session, pendingDelete, bankVars>>

\* A delete_user request up to the call of its view function: current_user
\* is loaded, the middleware and the decorators decide.
delete_user_dispatch(c, staff_id) ==
    LET cu == current_user(c)
        verdict == Pipeline(cu, "delete_user")
    IN  /\ Idle(c)
        /\ IF verdict # "run"
           THEN /\ resp' = Refusal(c, "delete_user", "POST", verdict)
                /\ UNCHANGED pendingDelete
           ELSE /\ resp' = NoResp
                /\ pendingDelete' = [pendingDelete EXCEPT ![c] =
                        [active |-> TRUE, user_id |-> cu.id, staff_id |-> staff_id]]
        /\ UNCHANGED <<staffVars, session, bankVars>>

delete_user_unguarded(c) ==
    LET p == pendingDelete[c]
    IN  /\ resp = NoResp
        /\ p.active
        /\ pendingDelete' = [pendingDelete EXCEPT ![c] = NoPending]
        /\ staff' = Restrict(staff, DOMAIN staff \ {p.staff_id})
        /\ resp' = Response(c, "delete_user", "POST", "redirect:manage_users", "success", TRUE)
        /\ UNCHANGED <<nextStaffId, session, bankVars>>

\* The view function delete_user, run for the user loaded at dispatch.
delete_user(c) ==
    LET p == pendingDelete[c]
    IN  /\ resp = NoResp
        /\ p.active
        /\ pendingDelete' = [pendingDelete EXCEPT ![c] = NoPending]
        /\ IF p.staff_id = p.user_id
           THEN /\ resp' = Response(c, "delete_user", "POST",
                                    "redirect:manage_users", "error", TRUE)
                /\ UNCHANGED staff
           ELSE /\ staff' = Restrict(staff, DOMAIN staff \ {p.staff_id})
                /\ resp' = Response(c, "delete_user", "POST",
                                    "redirect:manage_users", "success", TRUE)
        /\ UNCHANGED <<nextStaffId, session, bankVars>>

----------------------------------------------------------------------------
(* Read-only pages *)

index(c, conn_ok) ==
    LET cu == current_user(c)
        verdict == Pipeline(cu, "index")
    IN  /\ Idle(c)
        /\ resp' = IF verdict # "run" THEN Refusal(c, "index", "GET", verdict)
                   ELSE IF ~conn_ok THEN Response(c, "index", "GET", "error_page", "", TRUE)
                   ELSE Response(c, "index", "GET", "render", "", TRUE)
        /\ UNCHANGED <<staffVars, session, pendingDelete, bankVars>>

\* view_donors, view_donor_detail and view_inventory: a page is rendered from
\* SELECTs, nothing is written.
ViewEndpoints == {"view_donors", "view_donor_detail", "view_inventory"}

view_page(c, endpoint) ==
    LET cu == current_user(c)
        verdict == Pipeline(cu, endpoint)
    IN  /\ Idle(c)
        /\ resp' = IF verdict # "run" THEN Refusal(c, endpoint, "GET", verdict)
                   ELSE Response(c, endpoint, "GET", "render", "", TRUE)
        /\ UNCHANGED <<staffVars, session, pendingDelete, bankVars>>

\* Flask's built-in static-file endpoint: no decorator, no database.
static(c) ==
    LET cu == current_user(c)
        verdict == Pipeline(cu, "static")
    IN  /\ Idle(c)
        /\ resp' = IF verdict # "run" THEN Refusal(c, "static", "GET", verdict)
                   ELSE Response(c, "static", "GET", "file", "", TRUE)
        /\ UNCHANGED <<staffVars, session, pendingDelete, bankVars>>

----------------------------------------------------------------------------
(* src/setup_admin.py *)

AdminRow(salt) ==
    [username |-> "admin",
     password_hash |-> generate_password_hash("password", salt),
     is_admin |-> TRUE,
     secret_code |-> "ADMIN_LOCAL_CODE",
     must_change_password |-> TRUE]

\* DELETE the old admin, INSERT the new one, commit; a constraint violation
\* ends the script before its commit, and the transaction is discarded.
setup_admin_user(salt) ==
    LET kept == Restrict(staff, {i \in DOMAIN staff : staff[i].username # "admin"})
    IN  /\ resp = NoResp
        /\ nextStaffId <= MaxStaffId
        /\ nextStaffId' = nextStaffId + 1
        /\ staff' = IF StaffUniqueViolation(kept, AdminRow(salt))
                    THEN staff
                    ELSE kept @@ (nextStaffId :> AdminRow(salt))
        /\ resp' = NoResp
        /\ UNCHANGED <<session, pendingDelete, bankVars>>

----------------------------------------------------------------------------
(* datetime: calendar dates as <<year, month, day>> *)

IsLeap(y) == (y % 4 = 0 /\ y % 100 # 0) \/ y % 400 = 0

DaysInMonth(y, m) ==
    IF m = 2 THEN (IF IsLeap(y) THEN 29 ELSE 28)
    ELSE IF m \in {4, 6, 9, 11} THEN 30
    ELSE 31

\* datetime.strptime(s, '%Y-%m-%d') raises ValueError on a date that does not exist.
ValidDate(s) ==
    /\ s[2] \in 1..12
    /\ s[3] \in 1..DaysInMonth(s[1], s[2])

strptime(s) == <<s[1], s[2], s[3]>>

NextDay(d) ==
    IF d[3] < DaysInMonth(d[1], d[2]) THEN <<d[1], d[2], d[3] + 1>>
    ELSE IF d[2] < 12 THEN <<d[1], d[2] + 1, 1>>
    ELSE <<d[1] + 1, 1, 1>>

RECURSIVE AddDays(_, _)
\* date + timedelta(days=n), n >= 0
AddDays(d, n) == IF n = 0 THEN d ELSE AddDays(NextDay(d), n - 1)

PrevDay(d) ==
    IF d[3] > 1 THEN <<d[1], d[2], d[3] - 1>>
    ELSE IF d[2] > 1 THEN <<d[1], d[2] - 1, DaysInMonth(d[1], d[2] - 1)>>
    ELSE <<d[1] - 1, 12, 31>>

RECURSIVE SubDays(_, _)
\* date - INTERVAL 'n days', n >= 0
SubDays(d, n) ==
    IF n = 0 THEN d
    ELSE LET p == PrevDay(d)
         IN  IF p[3] >= 1 THEN SubDays(p, n - 1) ELSE p

\* a <= b on dates
DateLE(a, b) ==
    \/ a[1] < b[1]
    \/ a[1] = b[1] /\ a[2] < b[2]
    \/ a[1] = b[1] /\ a[2] = b[2] /\ a[3] <= b[3]

----------------------------------------------------------------------------
(* Donor registry *)

\* The store's uniqueness constraints on Donors.contact_number and Donors.email.
DonorsUniqueViolation(table, row) ==
    \E i \in DOMAIN table :
        \/ table[i].contact_number = row.contact_number
        \/ table[i].email = row.email

\* An INSERT whose key another open transaction has inserted waits for that
\* transaction to end.
DonorInsertWaits(c, row) ==
    \E o \in Clients \ {c} :
        /\ tx[o].active
        /\ tx[o].donor_id # 0
        /\ \/ tx[o].donor_row.contact_number = row.contact_number
           \/ tx[o].donor_row.email = row.email

UniqueViolationFlash_success == "success"

\* The category of the flash in the except errors.UniqueViolation branch.
UniqueViolationFlash == "error"

\* add_donor up to and including its INSERT.
add_donor(c, method, blood_group, contact_number, email) ==
    LET cu == current_user(c)
        verdict == Pipeline(cu, "add_donor")
        row == [blood_group |-> blood_group, contact_number |-> contact_number,
                email |-> email, last_donation_date |-> <<>>]
        form == [NoForm EXCEPT !.contact_number = contact_number, !.email = email,
                               !.blood_group = blood_group]
    IN  /\ Idle(c)
        /\ IF verdict # "run"
           THEN /\ resp' = Refusal(c, "add_donor", method, verdict)
                /\ UNCHANGED <<nextDonorId, tx>>
           ELSE IF cu.is_admin
           THEN /\ resp' = Response(c, "add_donor", method, "redirect:index", "error", TRUE)
                /\ UNCHANGED <<nextDonorId, tx>>
           ELSE IF method = "GET"
           THEN /\ resp' = Response(c, "add_donor", "GET", "render", "", TRUE)
                /\ UNCHANGED <<nextDonorId, tx>>
           ELSE /\ ~DonorInsertWaits(c, row)
                /\ nextDonorId <= MaxDonorId
                /\ nextDonorId' = nextDonorId + 1
                /\ IF DonorsUniqueViolation(donors, row)
                   THEN \* except errors.UniqueViolation: rollback, flash, redirect
                        /\ resp' = [Response(c, "add_donor", "POST", "redirect:view_donors",
                                             UniqueViolationFlash, TRUE)
                                        EXCEPT !.form = form]
                        /\ UNCHANGED tx
                   ELSE /\ resp' = NoResp
                        /\ tx' = [tx EXCEPT ![c] =
                                [NoTx EXCEPT !.active = TRUE, !.endpoint = "add_donor",
                                             !.pc = "commit", !.form = form,
                                             !.donor_id = nextDonorId, !.donor_row = row]]
        /\ UNCHANGED <<staffVars, session, pendingDelete, donors, inventory, nextBagId,
                       recipients, nextRecipientId, transfusions, nextTransfusionId>>

\* conn.commit() of add_donor, and the rest of the request.
add_donor_commit(c) ==
    /\ resp = NoResp
    /\ tx[c].active
    /\ tx[c].endpoint = "add_donor"
    /\ donors' = donors @@ (tx[c].donor_id :> tx[c].donor_row)
    /\ tx' = [tx EXCEPT ![c] = NoTx]
    /\ resp' = [Response(c, "add_donor", "POST", "redirect:view_donors", "success", TRUE)
                    EXCEPT !.form = tx[c].form]
    /\ UNCHANGED <<staffVars, session, pendingDelete, nextDonorId, inventory, nextBagId,
                   recipients, nextRecipientId, transfusions, nextTransfusionId>>

----------------------------------------------------------------------------
(* Inventory ledger *)

ExpiryDays_short == 42 - 1

ExpiryDays == 42

\* Reference data: the rows of BloodBanks, which no route changes.
BloodBanks == {1}

\* The column default of BloodInventory.status.
DefaultStatus == "Available"

add_inventory(c, method, donor_id, bank_id, donation_date_str) ==
    LET cu == current_user(c)
        verdict == Pipeline(cu, "add_inventory")
        donation_date == strptime(donation_date_str)
        expiry_date == AddDays(donation_date, ExpiryDays)
        bag == [donor_id |-> donor_id, bank_id |-> bank_id,
                blood_group |-> donors[donor_id].blood_group,
                donation_date |-> donation_date, expiry_date |-> expiry_date,
                status |-> DefaultStatus]
    IN  /\ Idle(c)
        /\ IF verdict # "run"
           THEN /\ resp' = Refusal(c, "add_inventory", method, verdict)
                /\ UNCHANGED <<donors, inventory, nextBagId>>
           ELSE IF cu.is_admin
           THEN /\ resp' = Response(c, "add_inventory", method, "redirect:index", "error", TRUE)
                /\ UNCHANGED <<donors, inventory, nextBagId>>
           ELSE IF method = "GET"
           THEN /\ resp' = Response(c, "add_inventory", "GET", "render", "", TRUE)
                /\ UNCHANGED <<donors, inventory, nextBagId>>
           ELSE IF ~ValidDate(donation_date_str) \/ donor_id \notin DOMAIN donors
           THEN \* ValueError from strptime, or TypeError from fetchone()[...] on None
                /\ resp' = Response(c, "add_inventory", "POST", "error:500", "", TRUE)
                /\ UNCHANGED <<donors, inventory, nextBagId>>
           ELSE /\ nextBagId <= MaxBagId
                /\ nextBagId' = nextBagId + 1
                /\ IF bank_id \notin BloodBanks
                   THEN \* the INSERT violates the foreign key; nothing is committed
                        /\ resp' = Response(c, "add_inventory", "POST", "error:500", "", TRUE)
                        /\ UNCHANGED <<donors, inventory>>
                   ELSE /\ inventory' = inventory @@ (nextBagId :> bag)
                        /\ donors' = [donors EXCEPT ![donor_id].last_donation_date =
                                                        donation_date]
                        /\ resp' = [Response(c, "add_inventory", "POST",
                                             "redirect:view_inventory", "success", TRUE)
                                        EXCEPT !.form = [NoForm EXCEPT !.donation_date =
                                                            donation_date_str]]
        /\ UNCHANGED <<staffVars, session, pendingDelete, nextDonorId, recipients,
                       nextRecipientId, transfusions, nextTransfusionId, tx>>

----------------------------------------------------------------------------
(* Reporting view *)

\* The values CURRENT_DATE takes when a report is requested.
ReportDates == {<<2025, 3, 1>>, <<2025, 4, 1>>}

EligibilityDays == 90

\* The third SELECT of view_reports, as the set of the donors it returns (the
\* ORDER BY is left out): last_donation_date IS NULL, or on or before the
\* day EligibilityDays before CURRENT_DATE.
eligible_donors(today) ==
    {d \in DOMAIN donors :
        \/ donors[d].last_donation_date = <<>>
        \/ DateLE(donors[d].last_donation_date, SubDays(today, EligibilityDays))}

view_reports(c, today) ==
    LET cu == current_user(c)
        verdict == Pipeline(cu, "view_reports")
    IN  /\ Idle(c)
        /\ resp' = IF verdict # "run" THEN Refusal(c, "view_reports", "GET", verdict)
                   ELSE [Response(c, "view_reports", "GET", "render", "", TRUE)
                            EXCEPT !.eligible_donors = eligible_donors(today),
                                   !.current_date = today]
        /\ UNCHANGED <<staffVars, session, pendingDelete, bankVars>>

----------------------------------------------------------------------------
(* Transfusion recorder *)

\* The tables as the open transaction t would commit them.
StagedRecipients(t) ==
    IF t.new_recipient_id # 0
    THEN recipients @@ (t.new_recipient_id :> t.new_recipient_row)
    ELSE recipients

StagedInventory(t) ==
    IF t.bag_updated \in DOMAIN inventory
    THEN [inventory EXCEPT ![t.bag_updated].status = "Used"]
    ELSE inventory

StagedTransfusions(t) ==
    IF t.transfusion_id # 0
    THEN transfusions @@ (t.transfusion_id :>
            [bag_id |-> t.form.bag_id, recipient_id |-> t.recipient_id])
    ELSE transfusions

\* conn.commit()
commit(t) ==
    /\ recipients' = StagedRecipients(t)
    /\ inventory' = StagedInventory(t)
    /\ transfusions' = StagedTransfusions(t)

rollback_keeps_writes(t) == commit(t)

\* conn.rollback()
rollback(t) == UNCHANGED <<recipients, inventory, transfusions>>

\* conn.close() on a connection with uncommitted statements discards them.
close(t) == UNCHANGED <<recipients, inventory, transfusions>>

TransfusionRecipient_submitted_first(submitted_id, new_id) ==
    IF submitted_id # 0 THEN submitted_id ELSE new_id

\* The id the transfusion row will carry: the id RETURNING gave for the new
\* recipient when one was inserted, the submitted recipient_id otherwise.
TransfusionRecipient(submitted_id, new_id) ==
    IF new_id # 0 THEN new_id ELSE submitted_id

\* The foreign keys of BloodTransfusions, checked against the committed rows
\* and the transaction's own.
TransfusionForeignKeyViolation(t) ==
    \/ t.form.bag_id \notin DOMAIN inventory
    \/ t.recipient_id \notin DOMAIN StagedRecipients(t)

\* UPDATE takes the row lock, held until the transaction ends.
BagLockWaits(c, bag_id) ==
    \E o \in Clients \ {c} : tx[o].active /\ tx[o].bag_updated = bag_id

\* except Exception: flash the error text; and the flash of a missing recipient.
UseFailed(c, form) ==
    [Response(c, "use_blood_bag", "POST", "redirect:view_inventory", "error", TRUE)
        EXCEPT !.form = form]

UseSucceeded(c, form) ==
    [Response(c, "use_blood_bag", "POST", "redirect:view_inventory", "success", TRUE)
        EXCEPT !.form = form]

\* use_blood_bag up to the test of recipient_id: the form is read and, when
\* the three new-recipient fields are filled in, the Recipients row is inserted.
\* ok is whether the INSERT went through (a database error raises).
use_blood_bag(c, bag_id, recipient_id, first_name, last_name, blood_group, ok) ==
    LET cu == current_user(c)
        verdict == Pipeline(cu, "use_blood_bag")
        form == [NoForm EXCEPT !.bag_id = bag_id, !.recipient_id = recipient_id,
                               !.first_name = first_name, !.last_name = last_name,
                               !.blood_group = blood_group]
        new == first_name # "" /\ last_name # "" /\ blood_group # ""
        open == [NoTx EXCEPT !.active = TRUE, !.endpoint = "use_blood_bag",
                             !.pc = "update", !.form = form]
    IN  /\ Idle(c)
        /\ IF verdict # "run"
           THEN /\ resp' = Refusal(c, "use_blood_bag", "POST", verdict)
                /\ UNCHANGED <<tx, nextRecipientId>>
           ELSE IF cu.is_admin
           THEN /\ resp' = Response(c, "use_blood_bag", "POST",
                                    "redirect:view_inventory", "error", TRUE)
                /\ UNCHANGED <<tx, nextRecipientId>>
           ELSE IF new
           THEN /\ nextRecipientId <= MaxRecipientId
                /\ nextRecipientId' = nextRecipientId + 1
                /\ IF ~ok
                   THEN /\ resp' = UseFailed(c, form)
                        /\ UNCHANGED tx
                   ELSE /\ resp' = NoResp
                        /\ tx' = [tx EXCEPT ![c] =
                                [open EXCEPT
                                    !.recipient_id =
                                        TransfusionRecipient(recipient_id, nextRecipientId),
                                    !.new_recipient_id = nextRecipientId,
                                    !.new_recipient_row =
                                        [first_name |-> first_name, last_name |-> last_name,
                                         blood_group |-> blood_group]]]
           ELSE IF TransfusionRecipient(recipient_id, 0) = 0
           THEN /\ resp' = UseFailed(c, form)
                /\ UNCHANGED <<tx, nextRecipientId>>
           ELSE /\ resp' = NoResp
                /\ tx' = [tx EXCEPT ![c] =
                        [open EXCEPT !.recipient_id = TransfusionRecipient(recipient_id, 0)]]
                /\ UNCHANGED nextRecipientId
        /\ close(tx[c])
        /\ UNCHANGED <<staffVars, session, pendingDelete, donors, nextDonorId, nextBagId,
                       nextTransfusionId>>

\* UPDATE BloodInventory SET status = 'Used' WHERE bag_id = ...
use_blood_bag_update(c, ok) ==
    /\ resp = NoResp
    /\ tx[c].active
    /\ tx[c].endpoint = "use_blood_bag"
    /\ tx[c].pc = "update"
    /\ ~BagLockWaits(c, tx[c].form.bag_id)
    /\ IF ~ok
       THEN /\ rollback(tx[c])
            /\ tx' = [tx EXCEPT ![c] = NoTx]
            /\ resp' = UseFailed(c, tx[c].form)
       ELSE /\ UNCHANGED <<recipients, inventory, transfusions>>
            /\ tx' = [tx EXCEPT ![c].pc = "insert",
                                ![c].bag_updated =
                                    IF tx[c].form.bag_id \in DOMAIN inventory
                                    THEN tx[c].form.bag_id ELSE 0]
            /\ resp' = NoResp
    /\ UNCHANGED <<staffVars, session, pendingDelete, donors, nextDonorId, nextBagId,
                   nextRecipientId, nextTransfusionId>>

\* INSERT INTO BloodTransfusions (bag_id, recipient_id), then conn.commit(),
\* and the rest of the request.  Nothing another request does between the two
\* statements changes either's outcome, so they are one step.
use_blood_bag_insert(c, insert_ok, commit_ok) ==
    LET t == [tx[c] EXCEPT !.transfusion_id = nextTransfusionId]
    IN  /\ resp = NoResp
        /\ tx[c].active
        /\ tx[c].endpoint = "use_blood_bag"
        /\ tx[c].pc = "insert"
        /\ nextTransfusionId <= MaxTransfusionId
        /\ nextTransfusionId' = nextTransfusionId + 1
        /\ IF ~insert_ok \/ TransfusionForeignKeyViolation(tx[c])
           THEN /\ rollback(tx[c])
                /\ resp' = UseFailed(c, tx[c].form)
           ELSE IF ~commit_ok
           THEN /\ rollback(t)
                /\ resp' = UseFailed(c, tx[c].form)
           ELSE /\ commit(t)
                /\ resp' = UseSucceeded(c, tx[c].form)
        /\ tx' = [tx EXCEPT ![c] = NoTx]
        /\ UNCHANGED <<staffVars, session, pendingDelete, donors, nextDonorId, nextBagId,
                       nextRecipientId>>

----------------------------------------------------------------------------
(* Specifications *)

EmptyTable == <<>>

NoBankData ==
    /\ donors = EmptyTable
    /\ nextDonorId = 1
    /\ inventory = EmptyTable
    /\ nextBagId = 1
    /\ recipients = EmptyTable
    /\ nextRecipientId = 1
    /\ transfusions = EmptyTable
    /\ nextTransfusionId = 1
    /\ tx = [c \in Clients |-> NoTx]

\* Staff administration and the session gate, from the store as
\* setup_admin_user leaves it and with nobody logged in.
InitAuth ==
    /\ staff = (1 :> AdminRow("salt"))
    /\ nextStaffId = 2
    /\ session = [c \in Clients |-> NoSession]
    /\ pendingDelete = [c \in Clients |-> NoPending]
    /\ resp = NoResp
    /\ NoBankData

NextAuth ==
    \/ \E c \in Clients, m \in Methods, code \in SecretCodes, pw \in Passwords,
          conn_ok \in BOOLEAN :
            login(c, m, code, pw, conn_ok)
    \/ \E c \in Clients, m \in Methods, u \in Usernames, pw \in Passwords,
          conn_ok \in BOOLEAN :
            admin_login(c, m, u, pw, conn_ok)
    \/ \E c \in Clients : logout(c)
    \/ \E c \in Clients, m \in Methods, cur \in Passwords, new \in Passwords,
          conf \in Passwords, salt \in Salts :
            profile(c, m, cur, new, conf, salt)
    \/ \E c \in Clients : manage_users(c)
    \/ \E c \in Clients, u \in Usernames, pw \in Passwords,
          code \in SecretCodes \cup {NULL}, adm \in BOOLEAN, salt \in Salts :
            add_user(c, u, pw, code, adm, salt)
    \/ \E c \in Clients, id \in 1..MaxStaffId : delete_user_dispatch(c, id)
    \/ \E c \in Clients : delete_user(c)
    \/ \E c \in Clients, conn_ok \in BOOLEAN : index(c, conn_ok)
    \/ \E c \in Clients, e \in ViewEndpoints : view_page(c, e)
    \/ \E c \in Clients, today \in ReportDates : view_reports(c, today)
    \/ \E c \in Clients : static(c)
    \/ \E c \in Clients : add_donor(c, "GET", "", "", "")
    \/ \E c \in Clients : add_inventory(c, "GET", 0, 0, <<>>)
    \/ \E salt \in Salts : setup_admin_user(salt)
    \/ send_response

SpecAuth == InitAuth /\ [][NextAuth]_vars

\* The bank's routes, from a store with an admin who has changed the default
\* password and one staff member, each client logged in as either or as nobody.
StaffRow ==
    [username |-> "bob",
     password_hash |-> generate_password_hash("s3cret", "salt"),
     is_admin |-> FALSE,
     secret_code |-> "CODE1",
     must_change_password |-> FALSE]

InitStaffed ==
    /\ staff = (1 :> [AdminRow("salt") EXCEPT !.must_change_password = FALSE])
                    @@ (2 :> StaffRow)
    /\ nextStaffId = 3
    /\ session \in [Clients -> {NoSession, 1, 2}]
    /\ pendingDelete = [c \in Clients |-> NoPending]
    /\ resp = NoResp

InitDonor == InitStaffed /\ NoBankData

NextDonor ==
    \/ \E c \in Clients, m \in Methods, g \in BloodGroups, n \in ContactNumbers,
          e \in Emails :
            add_donor(c, m, g, n, e)
    \/ \E c \in Clients : add_donor_commit(c)
    \/ \E c \in Clients, m \in Methods, d \in 1..MaxDonorId, b \in BloodBanks \cup {9},
          date \in DonationDates :
            add_inventory(c, m, d, b, date)
    \/ send_response

SpecDonor == InitDonor /\ [][NextDonor]_vars

\* Account deletion between two admins who have both changed their password,
\* each client logged in as either or as nobody.
SecondAdminRow ==
    [username |-> "bob",
     password_hash |-> generate_password_hash("s3cret", "salt"),
     is_admin |-> TRUE,
     secret_code |-> NULL,
     must_change_password |-> FALSE]

InitDelete ==
    /\ staff = (1 :> [AdminRow("salt") EXCEPT !.must_change_password = FALSE])
                    @@ (2 :> SecondAdminRow)
    /\ nextStaffId = 3
    /\ session \in [Clients -> {NoSession, 1, 2}]
    /\ pendingDelete = [c \in Clients |-> NoPending]
    /\ resp = NoResp
    /\ NoBankData

NextDelete ==
    \/ \E c \in Clients : manage_users(c)
    \/ \E c \in Clients, id \in 1..MaxStaffId : delete_user_dispatch(c, id)
    \/ \E c \in Clients : delete_user(c)
    \/ send_response

SpecDelete == InitDelete /\ [][NextDelete]_vars

\* Donor registration, donations and the reporting view.
NextReports ==
    \/ \E c \in Clients, g \in BloodGroups, n \in ContactNumbers, e \in Emails :
            add_donor(c, "POST", g, n, e)
    \/ \E c \in Clients : add_donor_commit(c)
    \/ \E c \in Clients, d \in 1..MaxDonorId, date \in DonationDates :
            add_inventory(c, "POST", d, 1, date)
    \/ \E c \in Clients, today \in ReportDates : view_reports(c, today)
    \/ send_response

SpecReports == InitDonor /\ [][NextReports]_vars

\* The transfusion workflow, from a store that holds one registered donor.
FirstDonor ==
    [blood_group |-> "A+", contact_number |-> "555-0001", email |-> "a@example.org",
     last_donation_date |-> <<>>]

InitUse ==
    /\ InitStaffed
    /\ donors = (1 :> FirstDonor)
    /\ nextDonorId = 2
    /\ inventory = EmptyTable
    /\ nextBagId = 1
    /\ recipients = EmptyTable
    /\ nextRecipientId = 1
    /\ transfusions = EmptyTable
    /\ nextTransfusionId = 1
    /\ tx = [c \in Clients |-> NoTx]

NextUse ==
    \/ \E c \in Clients : add_inventory(c, "POST", 1, 1, <<2025, 1, 1>>)
    \/ \E c \in Clients, b \in 1..MaxBagId, r \in 0..MaxRecipientId,
          f \in NewRecipientFields :
            use_blood_bag(c, b, r, f[1], f[2], f[3], TRUE)
    \/ \E c \in Clients, ok \in BOOLEAN : use_blood_bag_update(c, ok)
    \/ \E c \in Clients, insert_ok \in BOOLEAN, commit_ok \in BOOLEAN :
            use_blood_bag_insert(c, insert_ok, commit_ok)
    \/ send_response

SpecUse == InitUse /\ [][NextUse]_vars

\* The inventory ledger across transfusions: every donation date, and
\* transfusions to a new recipient.
NextLedger ==
    \/ \E c \in Clients, m \in Methods, d \in 1..MaxDonorId, b \in BloodBanks \cup {9},
          date \in DonationDates :
            add_inventory(c, m, d, b, date)
    \/ \E c \in Clients, b \in 1..MaxBagId, ok \in BOOLEAN :
            use_blood_bag(c, b, 0, "Ann", "Lee", "A+", ok)
    \/ \E c \in Clients, ok \in BOOLEAN : use_blood_bag_update(c, ok)
    \/ \E c \in Clients, insert_ok \in BOOLEAN, commit_ok \in BOOLEAN :
            use_blood_bag_insert(c, insert_ok, commit_ok)
    \/ send_response

SpecLedger == InitUse /\ [][NextLedger]_vars

----------------------------------------------------------------------------
(* Properties of the transfusion recorder *)

TransfusionsOf(b) == {t \in DOMAIN transfusions : transfusions[t].bag_id = b}

\* C1: in every reachable state, a bag's status is Used if and only if
\* exactly one BloodTransfusions row references it.
C1_UsedIffExactlyOneTransfusion ==
    \A b \in DOMAIN inventory :
        (inventory[b].status = "Used") <=> (Cardinality(TransfusionsOf(b)) = 1)

\* The step answers a use_blood_bag request of client c whose view function ran.
UseCompletes(c) ==
    /\ resp'.client = c
    /\ resp'.endpoint = "use_blood_bag"
    /\ resp'.handler_ran

AllNewFields(form) ==
    form.first_name # "" /\ form.last_name # "" /\ form.blood_group # ""

\* The writes of the open transaction t, all made in this step: the
\* BloodTransfusions row, the Recipients row when the form carried the three
\* new-recipient fields, and the status of the bag when the UPDATE found its row.
AllWritesCommitted(t) ==
    /\ t.form.bag_id \in DOMAIN inventory
    /\ inventory' = [inventory EXCEPT ![t.form.bag_id].status =
                        IF t.bag_updated = t.form.bag_id THEN "Used" ELSE @]
    /\ \E n \in DOMAIN transfusions' \ DOMAIN transfusions :
            /\ DOMAIN transfusions' = DOMAIN transfusions \cup {n}
            /\ transfusions'[n].bag_id = t.form.bag_id
            /\ \A u \in DOMAIN transfusions : transfusions'[u] = transfusions[u]
    /\ IF AllNewFields(t.form)
       THEN \E r \in DOMAIN recipients' \ DOMAIN recipients :
                /\ DOMAIN recipients' = DOMAIN recipients \cup {r}
                /\ \A q \in DOMAIN recipients : recipients'[q] = recipients[q]
       ELSE recipients' = recipients

StaffRequester(c) ==
    /\ session[c] \in DOMAIN staff
    /\ ~staff[session[c]].is_admin

\* C9: a use_blood_bag request with no recipient_id and without all three
\* new-recipient fields is answered with an error flash and writes nothing, and
\* never gets as far as a statement; a request with the three fields that
\* commits adds exactly one Recipients row, holding the submitted fields, and
\* its BloodTransfusions row references that row whatever recipient_id was
\* submitted; without the fields the row references the submitted recipient_id.
C9_RecipientChoice ==
    [][ \A c \in Clients :
          /\ (tx'[c].active /\ tx'[c].endpoint = "use_blood_bag")
                => (tx'[c].form.recipient_id # 0 \/ AllNewFields(tx'[c].form))
          /\ (UseCompletes(c) /\ StaffRequester(c) /\ ~tx[c].active
                /\ resp'.form.recipient_id = 0 /\ ~AllNewFields(resp'.form))
                => /\ resp'.flash = "error"
                   /\ UNCHANGED <<recipients, inventory, transfusions>>
          /\ (UseCompletes(c) /\ resp'.flash = "success")
                => \E t \in DOMAIN transfusions' \ DOMAIN transfusions :
                      IF AllNewFields(resp'.form)
                      THEN \E r \in DOMAIN recipients' \ DOMAIN recipients :
                              /\ DOMAIN recipients' = DOMAIN recipients \cup {r}
                              /\ recipients'[r].first_name = resp'.form.first_name
                              /\ recipients'[r].last_name = resp'.form.last_name
                              /\ recipients'[r].blood_group = resp'.form.blood_group
                              /\ transfusions'[t].recipient_id = r
                      ELSE /\ recipients' = recipients
                           /\ transfusions'[t].recipient_id = resp'.form.recipient_id ]_vars

\* A committed request that carried both the new-recipient fields and the id
\* of another recipient: its row references the recipient it created.
C9_Witness ==
    /\ resp.endpoint = "use_blood_bag"
    /\ resp.flash = "success"
    /\ AllNewFields(resp.form)
    /\ resp.form.recipient_id # 0
    /\ resp.form.recipient_id \in DOMAIN recipients
    /\ \E t \in DOMAIN transfusions :
            /\ transfusions[t].recipient_id \in DOMAIN recipients
            /\ transfusions[t].recipient_id # resp.form.recipient_id
            /\ transfusions[t].bag_id = resp.form.bag_id

----------------------------------------------------------------------------
(* Properties of the inventory ledger and the donor registry *)

DaysBeforeYear(y) == 365 * (y - 1) + ((y - 1) \div 4) - ((y - 1) \div 100) + ((y - 1) \div 400)

RECURSIVE DaysBeforeMonth(_, _)
DaysBeforeMonth(y, m) ==
    IF m = 1 THEN 0 ELSE DaysBeforeMonth(y, m - 1) + DaysInMonth(y, m - 1)

\* The day number of a date, counted from 0001-01-01 as day 1.
toordinal(d) == DaysBeforeYear(d[1]) + DaysBeforeMonth(d[1], d[2]) + d[3]

\* C10: a bag that add_inventory inserts carries the submitted donation date,
\* the date 42 days after it as expiry_date, and status Available; no step
\* removes a bag or changes its donation_date or expiry_date; so every bag's
\* expiry is its donation day plus 42, and 2025-01-01 gives 2025-02-12.
C10_ExpiryIsDonationPlus42 ==
    [][ /\ \A b \in DOMAIN inventory' \ DOMAIN inventory :
              /\ resp'.endpoint = "add_inventory"
              /\ inventory'[b].donation_date = resp'.form.donation_date
              /\ inventory'[b].status = "Available"
        /\ \A b \in DOMAIN inventory :
              /\ b \in DOMAIN inventory'
              /\ inventory'[b].donation_date = inventory[b].donation_date
              /\ inventory'[b].expiry_date = inventory[b].expiry_date
        /\ \A b \in DOMAIN inventory' :
              /\ toordinal(inventory'[b].expiry_date)
                    = toordinal(inventory'[b].donation_date) + 42
              /\ inventory'[b].donation_date = <<2025, 1, 1>>
                    => inventory'[b].expiry_date = <<2025, 2, 12>> ]_vars

\* The spec's example bag, after a transfusion has used it, beside a bag
\* donated in a leap February.
C10_Witness ==
    \E b \in DOMAIN inventory :
        /\ inventory[b].donation_date = <<2025, 1, 1>>
        /\ inventory[b].expiry_date = <<2025, 2, 12>>
        /\ inventory[b].status = "Used"

SharesKey(row, contact_number, email) ==
    row.contact_number = contact_number \/ row.email = email

\* C8: an add_donor POST whose contact_number or email is that of a committed
\* donor leaves Donors as it was and is answered with an error flash; and no
\* two Donors rows ever share a contact_number or an email, however the inserts
\* of concurrent requests interleave.
C8_DuplicateDonorRejected ==
    [][ /\ \A i, j \in DOMAIN donors' :
              i # j => ~SharesKey(donors'[i], donors'[j].contact_number, donors'[j].email)
        /\ ( /\ resp'.endpoint = "add_donor"
             /\ resp'.method = "POST"
             /\ resp'.form.contact_number # ""
             /\ \E i \in DOMAIN donors :
                    SharesKey(donors[i], resp'.form.contact_number, resp'.form.email) )
              => (donors' = donors /\ resp'.flash = "error")
        /\ donors' # donors
              => /\ resp'.endpoint \in {"add_donor", "add_inventory"}
                 /\ resp'.flash = "success" ]_vars

\* A rejected registration: the email is new, the contact number is taken.
C8_Witness ==
    /\ resp.endpoint = "add_donor"
    /\ resp.flash = "error"
    /\ resp.handler_ran
    /\ resp.form.contact_number # ""
    /\ \E i \in DOMAIN donors :
            /\ donors[i].contact_number = resp.form.contact_number
            /\ donors[i].email # resp.form.email
    /\ \A i \in DOMAIN donors : donors[i].email # resp.form.email

----------------------------------------------------------------------------
(* Properties of the session gate and of staff administration *)

Authenticated(c) == session[c] \in DOMAIN staff

NonAdminRequester(c) == ~Authenticated(c) \/ ~staff[session[c]].is_admin

\* C3: a request to profile, manage_users, add_user or delete_user from a
\* client that is not logged in, or is logged in to a record with is_admin
\* FALSE, never runs the view function, leaves Staff unchanged and is
\* redirected: to login when not logged in, to index otherwise.
C3_NonAdminNeverReachesAdminRoutes ==
    [][ \A c \in Clients :
          (NonAdminRequester(c) /\ ~pendingDelete[c].active)
            => /\ ~pendingDelete'[c].active
               /\ ( /\ resp'.client = c
                    /\ resp'.endpoint \in {"profile", "manage_users", "add_user",
                                           "delete_user"} )
                    => /\ ~resp'.handler_ran
                       /\ staff' = staff
                       /\ resp'.outcome = IF Authenticated(c) THEN "redirect:index"
                                          ELSE "redirect:login" ]_vars

\* A logged-in member of staff, no admin, was turned away from an admin route.
C3_Witness ==
    /\ resp.endpoint \in {"profile", "manage_users", "add_user", "delete_user"}
    /\ resp.outcome = "redirect:index"
    /\ ~resp.handler_ran
    /\ resp.client \in Clients
    /\ session[resp.client] \in DOMAIN staff
    /\ ~staff[session[resp.client]].is_admin

FlaggedRequester(c) == Authenticated(c) /\ staff[session[c]].must_change_password

\* What the gate claims have in common: only a flagged requester is ever
\* redirected by the middleware, the flag is only ever set on admin records,
\* and only that user's successful password change clears it.
GateUntilCleared ==
    /\ (resp'.outcome = "redirect:profile" /\ ~resp'.handler_ran)
          => FlaggedRequester(resp'.client)
    /\ \A i \in DOMAIN staff' : staff'[i].must_change_password => staff'[i].is_admin
    /\ \A i \in DOMAIN staff \cap DOMAIN staff' :
          (staff[i].must_change_password /\ ~staff'[i].must_change_password)
            => /\ resp'.endpoint = "profile"
               /\ resp'.method = "POST"
               /\ resp'.flash = "success"
               /\ session[resp'.client] = i

\* The requests of a flagged user to every endpoint outside `open` are
\* redirected to profile, with no view function run and nothing changed.
GateRedirects(open) ==
    \A c \in Clients :
        (FlaggedRequester(c) /\ ~pendingDelete[c].active)
          => /\ ~pendingDelete'[c].active
             /\ (resp'.client = c /\ resp'.endpoint \notin open)
                  => /\ resp'.outcome = "redirect:profile"
                     /\ ~resp'.handler_ran
                     /\ UNCHANGED <<staff, session>>

\* C4 as claimed: while the logged-in user's record has must_change_password
\* set, every request to an endpoint other than profile and logout is
\* redirected to profile without running its view function, until a
\* successful password change clears the flag, and not after.
C4_GateAsClaimed ==
    [][ GateRedirects({"profile", "logout"}) /\ GateUntilCleared ]_vars

\* C4 as amended: the same, with the static endpoint exempt as well.
C4_GateExceptStatic ==
    [][ GateRedirects({"profile", "logout", "static"}) /\ GateUntilCleared ]_vars

\* A flagged admin asked for the index page and was sent to the profile form.
C4_Witness ==
    /\ resp.endpoint = "index"
    /\ resp.outcome = "redirect:profile"
    /\ ~resp.handler_ran
    /\ session[resp.client] \in DOMAIN staff
    /\ staff[session[resp.client]].must_change_password

LoginEndpoints == {"login", "admin_login"}

\* Row i is of the role the login route serves, carries the submitted
\* credential, and its hash was generated from the submitted password.
CredentialsMatch(i, endpoint, cred, password) ==
    /\ IF endpoint = "admin_login"
       THEN staff[i].is_admin /\ staff[i].username = cred
       ELSE ~staff[i].is_admin /\ staff[i].secret_code = cred
    /\ \E salt \in Salts : staff[i].password_hash = generate_password_hash(password, salt)

\* C5: a session is established only by a login POST whose credential names a
\* record of the route's role and whose password is the one that record's hash
\* was generated from; a login POST with any other credentials changes no
\* session, flashes an error and leaves Staff unchanged.
C5_LoginOnlyWithValidCredentials ==
    [][ \A c \in Clients :
          /\ (session'[c] # session[c] /\ session'[c] # NoSession)
                => /\ resp'.client = c
                   /\ resp'.endpoint \in LoginEndpoints
                   /\ resp'.method = "POST"
                   /\ session'[c] \in DOMAIN staff
                   /\ CredentialsMatch(session'[c], resp'.endpoint,
                                       resp'.form.cred, resp'.form.password)
          /\ ( /\ resp'.client = c
               /\ resp'.endpoint \in LoginEndpoints
               /\ resp'.method = "POST"
               /\ resp'.handler_ran
               /\ ~\E i \in DOMAIN staff :
                      CredentialsMatch(i, resp'.endpoint, resp'.form.cred,
                                       resp'.form.password) )
                => /\ session' = session
                   /\ resp'.flash = "error"
                   /\ staff' = staff ]_vars

\* A staff member's secret code with the wrong password: refused, still logged out.
C5_Witness ==
    /\ resp.endpoint = "login"
    /\ resp.method = "POST"
    /\ resp.handler_ran
    /\ resp.flash = "error"
    /\ session[resp.client] = NoSession
    /\ \E i \in DOMAIN staff :
            /\ ~staff[i].is_admin
            /\ staff[i].secret_code = resp.form.cred
            /\ staff[i].password_hash # generate_password_hash(resp.form.password, "salt")

\* C6: a session is only ever established for an admin record through
\* admin_login, found by its username, and for a non-admin record through
\* login, found by its secret code; no step changes a record's is_admin, and
\* the current user of a session carries the is_admin of the stored record.
C6_LoginIsRoleScoped ==
    [][ /\ \A c \in Clients :
              (session'[c] # session[c] /\ session'[c] # NoSession)
                => /\ resp'.client = c
                   /\ session'[c] \in DOMAIN staff
                   /\ \/ /\ resp'.endpoint = "admin_login"
                         /\ staff[session'[c]].is_admin
                         /\ staff[session'[c]].username = resp'.form.cred
                      \/ /\ resp'.endpoint = "login"
                         /\ ~staff[session'[c]].is_admin
                         /\ staff[session'[c]].secret_code = resp'.form.cred
        /\ \A i \in DOMAIN staff \cap DOMAIN staff' : staff'[i].is_admin = staff[i].is_admin
        /\ \A c \in Clients :
              session'[c] \in DOMAIN staff'
                => current_user(c)'.is_admin = staff'[session'[c]].is_admin ]_vars

\* The admin of setup_admin_user, which carries a secret code, tried the
\* secret-code login with its own code and password, and was refused.
C6_Witness ==
    /\ resp.endpoint = "login"
    /\ resp.method = "POST"
    /\ resp.handler_ran
    /\ resp.flash = "error"
    /\ resp.form.cred = "ADMIN_LOCAL_CODE"
    /\ session[resp.client] = NoSession
    /\ \E i \in DOMAIN staff :
            /\ staff[i].is_admin
            /\ staff[i].secret_code = resp.form.cred
            /\ staff[i].password_hash = generate_password_hash(resp.form.password, "salt")

\* C7: the view function delete_user, called with the id of the admin whose
\* session the request carries, leaves Staff unchanged and flashes an error;
\* called with any other id it removes the row of that id, if there is one,
\* and changes no other row.
C7_DeleteUserSelfGuard ==
    [][ \A c \in Clients :
          (resp'.client = c /\ resp'.endpoint = "delete_user" /\ resp'.handler_ran)
            => IF pendingDelete[c].staff_id = session[c]
               THEN staff' = staff /\ resp'.flash = "error"
               ELSE /\ DOMAIN staff' = DOMAIN staff \ {pendingDelete[c].staff_id}
                    /\ \A i \in DOMAIN staff' : staff'[i] = staff[i] ]_vars

\* An admin's request to delete its own account was refused while another
\* account existed.
C7_Witness ==
    /\ resp.endpoint = "delete_user"
    /\ resp.handler_ran
    /\ resp.flash = "error"
    /\ session[resp.client] \in DOMAIN staff
    /\ Cardinality(DOMAIN staff) = 2

----------------------------------------------------------------------------
(* Properties of the reporting view *)

BagsOf(d) == {b \in DOMAIN inventory : inventory[b].donor_id = d}

\* The date lies in the 90 days that end on `today`.
WithinLast90Days(date, today) ==
    /\ toordinal(date) <= toordinal(today)
    /\ toordinal(today) - toordinal(date) < 90

\* C11: the eligibility report that view_reports renders contains every donor
\* that has no bag in BloodInventory, and contains no donor that has a bag
\* whose donation_date lies within the 90 days before the current date.
C11_EligibilityReport ==
    (resp.endpoint = "view_reports" /\ resp.handler_ran)
      => \A d \in DOMAIN donors :
            /\ BagsOf(d) = {} => d \in resp.eligible_donors
            /\ (\E b \in BagsOf(d) :
                    WithinLast90Days(inventory[b].donation_date, resp.current_date))
                  => d \notin resp.eligible_donors

----------------------------------------------------------------------------
(* Properties of account deletion *)

Admins == {i \in DOMAIN staff : staff[i].is_admin}

\* C12: the Staff table always holds at least one admin account, whatever
\* delete_user requests admins send and however they interleave.
C12_AnAdminRemains == Admins # {}

====
